---------------------------- MODULE Spec2Model ----------------------------
(***************************************************************************)
(* Model of src/App.py, the Kantingo financial dashboard (Streamlit).      *)
(*                                                                         *)
(* Streamlit runs the whole script once per user interaction.  One run of  *)
(* the script (a "pass") is modelled as a sequence of steps, one per       *)
(* section of the script, with pc naming the section that runs next.       *)
(* The only state that survives from one pass to the next is               *)
(* st.session_state; the widget values are fixed by the interaction that   *)
(* starts the pass; the locals of the script are gone when the run ends;   *)
(* the page and the requests made stay as the run left them until the next *)
(* run starts.                                                             *)
(*                                                                         *)
(* Amounts are integers (currency units).  The scenario multipliers are    *)
(* percentages, so the three scenario columns hold hundredths of a unit:   *)
(* Optimistic = Base * r with r in percent.                                *)
(***************************************************************************)
EXTENDS Integers, Sequences, FiniteSets

VARIABLES
    api_key_set,     \* GROQ_API_KEY is truthy (line 17)
    session_state,   \* st.session_state: a mapping, possibly without "chat_history"
    pc,              \* the section of the script that runs next
    selected_model,  \* st.selectbox value (line 34)
    uploaded_file,   \* st.file_uploader value (line 42)
    user_msg,        \* st.text_input value (line 145)
    send_btn,        \* "Kirim" button value (line 148)
    reset_btn,       \* "Reset" button value (line 149)
    df,              \* pd.read_excel(uploaded_file) (line 46)
    total_income,    \* line 59
    total_expense,   \* line 60
    balance,         \* line 61
    cat_df,          \* lines 73-74
    base,            \* lines 83-88: the forecast table
    insight_calls,   \* requests of this pass to the completion service, line 111
                     \* (the table text by its number of rows)
    chat_calls,      \* requests of this pass to the completion service, line 157
    ai_answer,       \* line 169
    rendered,        \* the elements this pass has put on the page
    transcript       \* the chat lines this pass has put on the page (lines 176-180)

vars == <<api_key_set, session_state, pc, selected_model, uploaded_file, user_msg,
          send_btn, reset_btn, df, total_income, total_expense, balance, cat_df,
          base, insight_calls, chat_calls, ai_answer, rendered, transcript>>

widgets == <<selected_model, uploaded_file, user_msg, send_btn, reset_btn>>

locals == <<df, total_income, total_expense, balance, cat_df, base, ai_answer>>

---------------------------------------------------------------------------
(* Bounds of the model.                                                    *)

\* Most rows an uploaded sheet holds.
MaxRows == 2

\* Most user/assistant pairs the chat history holds before "Kirim" is no
\* longer pressed.
MaxPairs == 2

---------------------------------------------------------------------------
(* Values.                                                                 *)

\* The options of the model selectbox.
Models == {"llama-3.1-8b-instant", "llama-3.3-70b-versatile", "openai/gpt-oss-120b"}

required_cols == {"Category", "Amount"}

\* What pandas holds for an empty Category cell.
NaN == "nan"

\* The category names of the model, in the sorted order groupby emits them.
CategoryOrder == <<"A", "B">>

CategoryNames == {CategoryOrder[i] : i \in 1..Len(CategoryOrder)}

CategoryCells == CategoryNames \cup {NaN}

AmountCells == {-2, -1, 0, 1}

RowValues == [Category : CategoryCells, Amount : AmountCells]

RECURSIVE SeqsUpTo(_, _)
SeqsUpTo(S, n) ==
    IF n = 0 THEN {<<>>}
    ELSE LET shorter == SeqsUpTo(S, n - 1)
         IN  shorter \cup {Append(s, x) : s \in {t \in shorter : Len(t) = n - 1}, x \in S}

NoFile == [present |-> FALSE, columns |-> {}, rows |-> <<>>]

\* Sheets without one of the required columns (names are case-sensitive).
BadSheets ==
    {[present |-> TRUE, columns |-> c, rows |-> <<>>] :
        c \in {{}, {"Category"}, {"Amount", "Date"}, {"category", "amount"}}}

\* Sheets with both required columns and any rows within the bound.
GoodSheets ==
    {[present |-> TRUE, columns |-> c, rows |-> r] :
        c \in {{"Category", "Amount"}}, r \in SeqsUpTo(RowValues, MaxRows)}

\* The sheets of a chat session: no sheet, the bad ones, and two good ones.
SessionSheets ==
    {NoFile} \cup BadSheets \cup
    {[present |-> TRUE, columns |-> {"Category", "Amount", "Date"}, rows |-> r] :
        r \in {<<>>, <<[Category |-> "A", Amount |-> -1]>>}}

UserTexts == {"", "q1", "q2"}

Answers == {"a1", "a2"}

EmptyFrame == [columns |-> {}, rows |-> <<>>]

NoAnswer == ""

---------------------------------------------------------------------------
(* The ledger computations.                                                *)

Abs(x) == IF x < 0 THEN -x ELSE x

RECURSIVE SumAmount(_)
\* Series.sum() over the Amount column.
SumAmount(rows) ==
    IF rows = <<>> THEN 0 ELSE Head(rows).Amount + SumAmount(Tail(rows))

RECURSIVE SumExpense(_)
\* Series.sum() over the Expense column.
SumExpense(rows) ==
    IF rows = <<>> THEN 0 ELSE Head(rows).Expense + SumExpense(Tail(rows))

HasRequiredCols(frame) == \A col \in required_cols : col \in frame.columns

\* df[df["Amount"] > 0]
PositiveRows(rows) == SelectSeq(rows, LAMBDA r : r.Amount > 0)

\* df[df["Amount"] < 0]
NegativeRows(rows) == SelectSeq(rows, LAMBDA r : r.Amount < 0)

TotalIncome(rows) == SumAmount(PositiveRows(rows))

\* Variant of TotalExpense: the abs() of line 60 left out.
TotalExpenseSigned(rows) == SumAmount(NegativeRows(rows))

TotalExpense(rows) == Abs(SumAmount(NegativeRows(rows)))

Balance(income, expense) == income - expense

\* cat_df: the expense rows with their magnitude in a new column.
CatDf(rows) ==
    LET neg == NegativeRows(rows)
    IN  [i \in 1..Len(neg) |->
            [Category |-> neg[i].Category, Expense |-> Abs(neg[i].Amount)]]

\* The keys groupby("Category") keeps: rows whose key is NaN are dropped
\* (dropna=True is the default).
GroupKeys(cat_rows) ==
    {cat_rows[i].Category : i \in 1..Len(cat_rows)} \ {NaN}

\* abs(cat_df.groupby("Category")["Expense"].sum()).reset_index(), renamed:
\* one row per kept key, in sorted key order.
GroupBySum(cat_rows) ==
    LET keys   == SelectSeq(CategoryOrder, LAMBDA k : k \in GroupKeys(cat_rows))
        rowsOf(k) == SelectSeq(cat_rows, LAMBDA r : r.Category = k)
    IN  [i \in 1..Len(keys) |->
            [Category |-> keys[i], Base |-> Abs(SumExpense(rowsOf(keys[i])))]]

\* np.random.uniform(low, high) computes low + (high - low) * u for u in
\* [0, 1) in double precision; for each of the three ranges used here the
\* result rounds to high for the largest values of u, so both ends are
\* values a draw can take.  In percent: the two ends and one value between.
OptimisticDraws == {80, 90, 100}

NormalDraws == {100, 110, 120}

\* Variant of WorstCaseDraws: the worst case drawn from (1.0, 1.5).
WorstCaseDrawsFromOne == {100, 135, 150}

WorstCaseDraws == {120, 135, 150}

\* Lines 86-88: each scenario column is the base column times its draws.
Forecast(groups, r1, r2, r3) ==
    [i \in 1..Len(groups) |->
        [Category   |-> groups[i].Category,
         Base       |-> groups[i].Base,
         Optimistic |-> groups[i].Base * r1[i],
         Normal     |-> groups[i].Base * r2[i],
         WorstCase  |-> groups[i].Base * r3[i]]]

\* base.head(20)
PreviewRows == 20

HeadRows(table) == SubSeq(table, 1, IF Len(table) < PreviewRows THEN Len(table) ELSE PreviewRows)

---------------------------------------------------------------------------
(* The chat session.                                                       *)

InsightSystem == [role |-> "system", content |-> "Kamu adalah Kantingo AI, analis keuangan digital."]

ChatSystem == [role |-> "system", content |-> "Kamu adalah Kantingo AI."]

UserTurn(text) == [role |-> "user", content |-> text]

AssistantTurn(text) == [role |-> "assistant", content |-> text]

\* The conversation history as a reader of st.session_state sees it.
ChatHistory ==
    IF "chat_history" \in DOMAIN session_state THEN session_state["chat_history"] ELSE <<>>

\* Variant of ChatMessages: the earlier turns left out of the request.
ChatMessagesNoHistory(history, text) == <<ChatSystem, UserTurn(text)>>

\* Lines 158-165: the messages of a chat request.
ChatMessages(history, text) == <<ChatSystem>> \o history \o <<UserTurn(text)>>

\* Variant of HistoryAfterSend: the user turn appended before the call, so
\* that it stays when the call raises.
HistoryAfterSendEager(history, text, ok, answer) ==
    IF ok THEN Append(Append(history, UserTurn(text)), AssistantTurn(answer))
    ELSE Append(history, UserTurn(text))

\* Variant of HistoryAfterSend: the two appends in the other order.
HistoryAfterSendReplyFirst(history, text, ok, answer) ==
    IF ok THEN Append(Append(history, AssistantTurn(answer)), UserTurn(text))
    ELSE history

\* Variant of HistoryAfterSend: the append of the user turn left out.
HistoryAfterSendReplyOnly(history, text, ok, answer) ==
    IF ok THEN Append(history, AssistantTurn(answer))
    ELSE history

\* Lines 169-174: the history after the completion call returned `answer`
\* (ok) or raised (not ok).
HistoryAfterSend(history, text, ok, answer) ==
    IF ok THEN Append(Append(history, UserTurn(text)), AssistantTurn(answer))
    ELSE history

\* Variant of HistoryAfterReset: the empty list bound to another name, the
\* session's history left as it was.
HistoryAfterResetNoop(history) == history

\* Line 152.
HistoryAfterReset(history) == <<>>

\* Lines 176-180.
RenderLine(msg) ==
    [who |-> IF msg.role = "user" THEN "You" ELSE "Kantingo", content |-> msg.content]

RenderTranscript(history) == [i \in 1..Len(history) |-> RenderLine(history[i])]

---------------------------------------------------------------------------
(* The script, section by section.                                         *)

Init ==
    /\ api_key_set \in BOOLEAN
    /\ session_state = <<>>
    /\ pc = "idle"
    /\ selected_model = "llama-3.1-8b-instant"
    /\ uploaded_file = NoFile
    /\ user_msg = ""
    /\ send_btn = FALSE
    /\ reset_btn = FALSE
    /\ df = EmptyFrame
    /\ total_income = 0
    /\ total_expense = 0
    /\ balance = 0
    /\ cat_df = <<>>
    /\ base = <<>>
    /\ insight_calls = <<>>
    /\ chat_calls = <<>>
    /\ ai_answer = NoAnswer
    /\ rendered = {}
    /\ transcript = <<>>

\* A user interaction: the widgets take their new values and Streamlit
\* runs the script again from the top, with a fresh page.
\* "Kirim" is pressed only while the history has room within the bound.
Interact(sheets, texts, models, presses) ==
    /\ pc = "idle"
    /\ \E f \in sheets, t \in texts, m \in models, p \in presses :
        /\ p[1] => (p[2] \/ Len(ChatHistory) < 2 * MaxPairs)
        /\ uploaded_file' = f
        /\ user_msg' = t
        /\ selected_model' = m
        /\ send_btn' = p[1]
        /\ reset_btn' = p[2]
    /\ insight_calls' = <<>>
    /\ chat_calls' = <<>>
    /\ rendered' = {}
    /\ transcript' = <<>>
    /\ pc' = "head"
    /\ UNCHANGED <<api_key_set, session_state, locals>>

\* Lines 16-44: without the API key the script stops; without an uploaded
\* file the rest of the script, all inside `if uploaded_file:`, is skipped.
ScriptHead ==
    /\ pc = "head"
    /\ IF ~api_key_set
       THEN rendered' = rendered \cup {"config_error"} /\ pc' = "idle"
       ELSE /\ rendered' = rendered
            /\ pc' = IF uploaded_file.present THEN "load" ELSE "idle"
    /\ UNCHANGED <<api_key_set, session_state, widgets, locals, insight_calls,
                   chat_calls, transcript>>

\* Variant of LoadLedger: the error shown but st.stop() left out.
LoadLedgerNoStop ==
    /\ pc = "load"
    /\ df' = [columns |-> uploaded_file.columns, rows |-> uploaded_file.rows]
    /\ rendered' = IF ~HasRequiredCols(df') THEN rendered \cup {"schema_error"} ELSE rendered
    /\ pc' = "summary"
    /\ UNCHANGED <<api_key_set, session_state, widgets, total_income, total_expense,
                   balance, cat_df, base, ai_answer, insight_calls, chat_calls,
                   transcript>>

\* Lines 46-52: read the sheet; stop the script when a required column is
\* missing (the run ends and its locals go).
LoadLedger ==
    /\ pc = "load"
    /\ LET frame == [columns |-> uploaded_file.columns, rows |-> uploaded_file.rows]
       IN  IF ~HasRequiredCols(frame)
           THEN /\ rendered' = rendered \cup {"schema_error"}
                /\ df' = EmptyFrame
                /\ pc' = "idle"
           ELSE /\ rendered' = rendered
                /\ df' = frame
                /\ pc' = "summary"
    /\ UNCHANGED <<api_key_set, session_state, widgets, total_income, total_expense,
                   balance, cat_df, base, ai_answer, insight_calls, chat_calls,
                   transcript>>

\* Lines 57-66.
Summary ==
    /\ pc = "summary"
    /\ total_income' = TotalIncome(df.rows)
    /\ total_expense' = TotalExpense(df.rows)
    /\ balance' = Balance(total_income', total_expense')
    /\ rendered' = rendered \cup {"metrics"}
    /\ pc' = "category"
    /\ UNCHANGED <<api_key_set, session_state, widgets, df, cat_df, base, ai_answer,
                   insight_calls, chat_calls, transcript>>

\* Lines 71-76.
CategoryChart ==
    /\ pc = "category"
    /\ cat_df' = CatDf(df.rows)
    /\ rendered' = rendered \cup {"category_chart"}
    /\ pc' = "forecast"
    /\ UNCHANGED <<api_key_set, session_state, widgets, df, total_income,
                   total_expense, balance, base, ai_answer, insight_calls,
                   chat_calls, transcript>>

\* Lines 82-100: three independent draws per row of the grouped table.
ForecastTable ==
    /\ pc = "forecast"
    /\ LET groups == GroupBySum(cat_df)
           n      == Len(groups)
       IN  \E r1 \in [1..n -> OptimisticDraws], r2 \in [1..n -> NormalDraws],
              r3 \in [1..n -> WorstCaseDraws] :
               base' = Forecast(groups, r1, r2, r3)
    /\ rendered' = rendered \cup {"forecast_table", "forecast_chart"}
    /\ pc' = "insight"
    /\ UNCHANGED <<api_key_set, session_state, widgets, df, total_income,
                   total_expense, balance, cat_df, ai_answer, insight_calls,
                   chat_calls, transcript>>

\* Variant of Insight: the exception handler also empties the chat history.
InsightResetsHistory ==
    /\ pc = "insight"
    /\ insight_calls' = Append(insight_calls,
            [system |-> InsightSystem, rows |-> Len(HeadRows(base)), model |-> selected_model])
    /\ \E ok \in BOOLEAN :
        /\ rendered' = rendered \cup {IF ok THEN "insight" ELSE "insight_error"}
        /\ session_state' = IF ok THEN session_state ELSE [k \in {"chat_history"} |-> <<>>]
    /\ pc' = "chat"
    /\ UNCHANGED <<api_key_set, widgets, locals, chat_calls, transcript>>

\* Lines 106-134: one request; its answer is written to the page, an
\* exception is caught and shown.
Insight ==
    /\ pc = "insight"
    /\ insight_calls' = Append(insight_calls,
            [system |-> InsightSystem, rows |-> Len(HeadRows(base)), model |-> selected_model])
    /\ \E ok \in BOOLEAN :
        rendered' = rendered \cup {IF ok THEN "insight" ELSE "insight_error"}
    /\ pc' = "chat"
    /\ UNCHANGED <<api_key_set, session_state, widgets, locals, chat_calls, transcript>>

\* Lines 140-149.
ChatInit ==
    /\ pc = "chat"
    /\ session_state' =
        IF "chat_history" \notin DOMAIN session_state
        THEN [k \in {"chat_history"} |-> <<>>]
        ELSE session_state
    /\ pc' = "reset"
    /\ UNCHANGED <<api_key_set, widgets, locals, insight_calls, chat_calls, rendered,
                   transcript>>

\* Lines 151-153.
Reset ==
    /\ pc = "reset"
    /\ IF reset_btn
       THEN /\ session_state' =
                [session_state EXCEPT !["chat_history"] = HistoryAfterReset(@)]
            /\ rendered' = rendered \cup {"reset_notice"}
       ELSE UNCHANGED <<session_state, rendered>>
    /\ pc' = "send"
    /\ UNCHANGED <<api_key_set, widgets, locals, insight_calls, chat_calls, transcript>>

\* Lines 155-174: the completion call returns an answer or raises.
Send ==
    /\ pc = "send"
    /\ IF send_btn /\ user_msg # ""
       THEN \E ok \in BOOLEAN, answer \in Answers :
               /\ chat_calls' = Append(chat_calls,
                      [messages |-> ChatMessages(ChatHistory, user_msg),
                       model |-> selected_model])
               /\ session_state' =
                      [session_state EXCEPT !["chat_history"] =
                          HistoryAfterSend(@, user_msg, ok, answer)]
               /\ ai_answer' = IF ok THEN answer ELSE NoAnswer
               /\ rendered' = IF ok THEN rendered ELSE rendered \cup {"chat_error"}
       ELSE UNCHANGED <<chat_calls, session_state, ai_answer, rendered>>
    /\ pc' = "render"
    /\ UNCHANGED <<api_key_set, widgets, df, total_income, total_expense, balance,
                   cat_df, base, insight_calls, transcript>>

\* Lines 176-180, the end of the script: the run ends and its locals go.
Render ==
    /\ pc = "render"
    /\ transcript' = RenderTranscript(ChatHistory)
    /\ rendered' = rendered \cup {"transcript"}
    /\ pc' = "idle"
    /\ df' = EmptyFrame
    /\ total_income' = 0
    /\ total_expense' = 0
    /\ balance' = 0
    /\ cat_df' = <<>>
    /\ base' = <<>>
    /\ ai_answer' = NoAnswer
    /\ UNCHANGED <<api_key_set, session_state, widgets, insight_calls, chat_calls>>

Script ==
    \/ ScriptHead
    \/ LoadLedger
    \/ Summary
    \/ CategoryChart
    \/ ForecastTable
    \/ Insight
    \/ ChatInit
    \/ Reset
    \/ Send
    \/ Render

\* A chat session over a few sheets.
SessionInteract == Interact(SessionSheets, UserTexts, Models, BOOLEAN \X BOOLEAN)

Next == SessionInteract \/ Script

Spec == Init /\ [][Next]_vars

\* Uploads of every sheet within the bound, with the chat left alone.
LedgerInteract == Interact(GoodSheets, {""}, {"llama-3.1-8b-instant"}, {<<FALSE, FALSE>>})

NextLedger == LedgerInteract \/ Script

SpecLedger == Init /\ [][NextLedger]_vars

---------------------------------------------------------------------------
(* Properties of the chat session, checked under Spec.                     *)

\* The send section made a completion call in this step and it returned.
SendSucceeds == pc = "send" /\ send_btn /\ user_msg # "" /\ "chat_error" \notin rendered'

\* The send section made a completion call in this step and it raised.
SendFails == pc = "send" /\ "chat_error" \in rendered'

\* C1: a send whose completion call raises leaves the conversation history
\* exactly as it was before the call: same length, same contents.
C1_FailedSendKeepsHistory ==
    [][SendFails =>
        /\ Len(ChatHistory') = Len(ChatHistory)
        /\ \A i \in 1..Len(ChatHistory) : ChatHistory'[i] = ChatHistory[i]]_vars

\* A send has failed on a history that already holds turns.
C1_Witness ==
    pc = "render" /\ "chat_error" \in rendered /\ user_msg = "q2" /\ Len(ChatHistory) > 0

\* C2: a successful send of a non-empty message appends exactly two turns
\* at the end of the history, the user message and then the returned
\* answer, and keeps every earlier turn in place; as every send appends at
\* the end, the turns stand in the order they were submitted.
C2_SendAppendsPair ==
    [][SendSucceeds =>
        LET old == ChatHistory
            new == ChatHistory'
        IN  /\ Len(new) = Len(old) + 2
            /\ \A i \in 1..Len(old) : new[i] = old[i]
            /\ new[Len(old) + 1] = [role |-> "user", content |-> user_msg]
            /\ new[Len(old) + 2] = [role |-> "assistant", content |-> ai_answer']
            /\ ai_answer' \in Answers]_vars

\* A second exchange has been appended behind a first one with another text.
C2_Witness ==
    /\ pc = "render"
    /\ Len(ChatHistory) = 4
    /\ ChatHistory[1].content = "q2"
    /\ ChatHistory[3] = [role |-> "user", content |-> "q1"]
    /\ ChatHistory[4] = [role |-> "assistant", content |-> ai_answer]
    /\ ai_answer = "a2"

\* C3: the request a send issues is the system persona message, then the
\* whole history as it stood before the call, in order, then the new user
\* message last; the model is the selected one.
C3_RequestShape ==
    [][(pc = "send" /\ send_btn /\ user_msg # "") =>
        /\ Len(chat_calls') = 1
        /\ LET msgs == chat_calls'[1].messages
           IN  /\ chat_calls'[1].model = selected_model
               /\ Len(msgs) = Len(ChatHistory) + 2
               /\ msgs[1].role = "system"
               /\ msgs[1] = ChatSystem
               /\ \A i \in 1..Len(ChatHistory) : msgs[i + 1] = ChatHistory[i]
               /\ msgs[Len(msgs)] = [role |-> "user", content |-> user_msg]]_vars

\* A request has carried two earlier turns between the persona and the new
\* message, for a model other than the default one.
C3_Witness ==
    /\ Len(chat_calls) = 1
    /\ Len(chat_calls[1].messages) = 4
    /\ chat_calls[1].messages[2].role = "user"
    /\ chat_calls[1].messages[3].role = "assistant"
    /\ chat_calls[1].model = "openai/gpt-oss-120b"

\* C4 as stated: after a pass in which Reset was pressed, the history and
\* the transcript rendered in that pass are empty.
C4_ResetPassShowsNothing ==
    (reset_btn /\ "transcript" \in rendered) => (ChatHistory = <<>> /\ transcript = <<>>)

\* C4, amended: the reset section always runs through and leaves the
\* history empty whatever it held; the transcript rendered in the same pass
\* is empty unless "Kirim" was pressed too with a non-empty message and the
\* completion call returned, and then it is that one exchange.
C4_ResetClears ==
    [][/\ (pc = "reset" /\ reset_btn) => (ChatHistory' = <<>> /\ pc' = "send")
       /\ (pc = "render" /\ reset_btn) =>
            transcript' =
                IF send_btn /\ user_msg # "" /\ "chat_error" \notin rendered
                THEN <<[who |-> "You", content |-> user_msg],
                       [who |-> "Kantingo", content |-> ai_answer]>>
                ELSE <<>>]_vars

\* A pass with Reset pressed alone has rendered an empty transcript.
C4_Witness ==
    /\ pc = "idle"
    /\ reset_btn
    /\ ~send_btn
    /\ {"reset_notice", "transcript"} \subseteq rendered
    /\ transcript = <<>>

\* C5: the history changes only in the reset section with Reset pressed,
\* which empties it, and in the send section when the completion call
\* returned, which extends it by two turns; no other step changes it.
C5_HistoryFrame ==
    [][ChatHistory' # ChatHistory =>
        \/ (pc = "reset" /\ reset_btn /\ ChatHistory' = <<>>)
        \/ /\ SendSucceeds
           /\ Len(ChatHistory') = Len(ChatHistory) + 2
           /\ SubSeq(ChatHistory', 1, Len(ChatHistory)) = ChatHistory]_vars

\* A pass with a failed insight request and "Kirim" pressed on an empty
\* message has ended with turns still in the history.
C5_Witness ==
    /\ pc = "idle"
    /\ "insight_error" \in rendered
    /\ "transcript" \in rendered
    /\ send_btn
    /\ user_msg = ""
    /\ Len(ChatHistory) = 2

\* C6: a sheet without Category or Amount ends the pass with the schema
\* error and nothing else: no metrics, no chart, no forecast, no request to
\* the completion service, no chat section, no transcript.
C6_SchemaErrorStopsPass ==
    (/\ api_key_set
     /\ uploaded_file.present
     /\ ~({"Category", "Amount"} \subseteq uploaded_file.columns)
     /\ pc \notin {"head", "load"})
    => /\ pc = "idle"
       /\ rendered = {"schema_error"}
       /\ insight_calls = <<>>
       /\ chat_calls = <<>>
       /\ transcript = <<>>

\* A pass has stopped on the schema error although both buttons were
\* pressed with a message typed, and the history still holds turns.
C6_Witness ==
    /\ pc = "idle"
    /\ "schema_error" \in rendered
    /\ uploaded_file.columns = {"Amount", "Date"}
    /\ send_btn
    /\ reset_btn
    /\ user_msg = "q1"
    /\ Len(ChatHistory) = 2

\* C10: in every state the history has even length and alternates user,
\* assistant, user, assistant, ... from its first turn.
C10_HistoryAlternates ==
    /\ Len(ChatHistory) % 2 = 0
    /\ \A i \in 1..Len(ChatHistory) :
        ChatHistory[i].role = IF i % 2 = 1 THEN "user" ELSE "assistant"

\* A send has failed, with Reset not pressed, on a history of one exchange.
C10_Witness ==
    /\ pc = "idle"
    /\ "chat_error" \in rendered
    /\ ~reset_btn
    /\ Len(ChatHistory) = 2

---------------------------------------------------------------------------
(* Properties of the ledger computations, checked under SpecLedger.        *)

\* The sections of a run that come after the summary section, and after the
\* forecast section.
AfterSummary == {"category", "forecast", "insight", "chat", "reset", "send", "render"}

AfterForecast == {"insight", "chat", "reset", "send", "render"}

RECURSIVE SumOver(_, _)
\* The sum of f[i] over the indices i in S.
SumOver(f, S) ==
    IF S = {} THEN 0
    ELSE LET i == CHOOSE j \in S : TRUE
         IN  f[i] + SumOver(f, S \ {i})

\* C7: once the summary is computed, total_income is the sum of the
\* amounts above zero, total_expense the magnitude of the sum of the
\* amounts below zero, neither is negative, balance is their difference,
\* and rows of amount zero count in neither.
C7_Summary ==
    pc \in AfterSummary =>
        LET rows   == df.rows
            amount == [i \in 1..Len(rows) |-> rows[i].Amount]
            pos    == {i \in 1..Len(rows) : amount[i] > 0}
            neg    == {i \in 1..Len(rows) : amount[i] < 0}
            nonz   == {i \in 1..Len(rows) : amount[i] # 0}
        IN  /\ total_income = SumOver(amount, pos)
            /\ total_expense = SumOver([i \in 1..Len(rows) |-> -amount[i]], neg)
            /\ total_income >= 0
            /\ total_expense >= 0
            /\ balance = total_income - total_expense
            /\ balance = SumOver(amount, nonz)

\* The summary of a sheet holding an expense and a zero-amount row.
C7_Witness ==
    /\ pc \in AfterSummary
    /\ Len(df.rows) = 2
    /\ df.rows[1].Amount = 0
    /\ df.rows[2].Amount = -2
    /\ total_expense = 2
    /\ balance = -2

\* C8: once the forecast table is built, its base values sum to
\* total_expense, and it holds a row only for a category in which the sheet
\* has an expense (no row of value zero).
C8_AggregateSumsToExpense ==
    pc \in AfterForecast =>
        /\ SumOver([i \in 1..Len(base) |-> base[i].Base], 1..Len(base)) = total_expense
        /\ \A i \in 1..Len(base) : base[i].Base > 0
        /\ {base[i].Category : i \in 1..Len(base)} \subseteq
              {df.rows[j].Category : j \in {k \in 1..Len(df.rows) : df.rows[k].Amount < 0}}

==========================================================================
